---------------------------- MODULE Spec2Model ----------------------------
(***************************************************************************)
(* DockMate pre-flight checks (internal/check/precheck.go).                *)
(*                                                                         *)
(* Texts are modelled by what the code does with them.  The group database *)
(* and the output of `id -nG` are sequences of one-character strings, so   *)
(* that Split, TrimSpace, HasPrefix and Fields are computed as Go computes *)
(* them.  Messages and the captured stderr of `docker info` are sequences  *)
(* of whitespace-separated words; Contains is the search for a contiguous, *)
(* case-sensitive run of words.                                            *)
(***************************************************************************)
EXTENDS Integers, Sequences, FiniteSets, TLC

(***************************************************************************)
(* Go's strings package, on sequences.                                     *)
(***************************************************************************)

\* strings.HasPrefix(s, p)
HasPrefix(s, p) ==
    /\ Len(p) <= Len(s)
    /\ SubSeq(s, 1, Len(p)) = p

\* strings.Contains(s, sub): a contiguous occurrence, compared exactly
Contains(s, sub) ==
    \E i \in 1..(Len(s) - Len(sub) + 1) : SubSeq(s, i, i + Len(sub) - 1) = sub

\* position of the first occurrence of the one-element separator, 0 if none
RECURSIVE IndexOf(_, _, _)
IndexOf(s, c, i) ==
    IF i > Len(s) THEN 0
    ELSE IF s[i] = c THEN i
    ELSE IndexOf(s, c, i + 1)

\* strings.Split(s, sep) for a one-character separator: always at least one
\* part, empty parts are kept
RECURSIVE Split(_, _)
Split(s, c) ==
    LET i == IndexOf(s, c, 1) IN
    IF i = 0 THEN <<s>>
    ELSE <<SubSeq(s, 1, i - 1)>> \o Split(SubSeq(s, i + 1, Len(s)), c)

\* unicode.IsSpace on the characters the model uses
IsSpace(c) ==
    c \in {" ", "\n", "\t", "\r"}

RECURSIVE TrimLeft(_)
TrimLeft(s) ==
    IF s # <<>> /\ IsSpace(Head(s)) THEN TrimLeft(Tail(s)) ELSE s

RECURSIVE TrimRight(_)
TrimRight(s) ==
    IF s # <<>> /\ IsSpace(s[Len(s)]) THEN TrimRight(SubSeq(s, 1, Len(s) - 1)) ELSE s

\* strings.TrimSpace(s)
TrimSpace(s) ==
    TrimRight(TrimLeft(s))

\* strings.Fields(s): the maximal runs of non-space characters
RECURSIVE Fields(_)
Fields(s) ==
    LET t == TrimLeft(s)
        RECURSIVE WordEnd(_)
        WordEnd(i) == IF i > Len(t) \/ IsSpace(t[i]) THEN i - 1 ELSE WordEnd(i + 1)
    IN  IF t = <<>> THEN <<>>
        ELSE LET e == WordEnd(1)
             IN  <<SubSeq(t, 1, e)>> \o Fields(SubSeq(t, e + 1, Len(t)))

(***************************************************************************)
(* The result type and the texts of precheck.go, word by word.             *)
(***************************************************************************)

\* PreCheckErrorType (iota constants)
ErrorTypes ==
    {"NoError", "DockerNotInstalled", "DockerDaemonNotRunning",
     "DockerPermissionDenied", "DockerGroupNotRefreshed"}

\* PreCheckResult{...}
PreCheckResult(passed, errorType, errorMessage, suggestedAction) ==
    [Passed |-> passed, ErrorType |-> errorType,
     ErrorMessage |-> errorMessage, SuggestedAction |-> suggestedAction]

\* PreCheckResult{Passed: true}: the other fields keep Go's zero values
PassedResult ==
    PreCheckResult(TRUE, "NoError", <<>>, <<>>)

\* getDockerStartCommand on darwin
StartDarwin ==
    <<"Start", "Docker", "Desktop", "application">>

\* getDockerRestartCommand on darwin
RestartDarwin ==
    <<"Restart", "Docker", "Desktop", "application">>

\* checkDockerInstalled: ErrorMessage
MsgNotInstalled ==
    <<"Docker", "is", "not", "installed", "or", "not", "found", "in",
      "PATH">>

\* checkDockerInstalled: SuggestedAction
ActNotInstalled ==
    <<"Please", "install", "Docker", "to", "use", "this", "application.",
      "Installation", "guide:",
      "https://docs.docker.com/engine/install/">>

\* daemon branch: ErrorMessage before the captured stderr
MsgDaemonNotRunning ==
    <<"Docker", "daemon", "is", "not", "running.", "Docker", "error:">>

\* daemon branch: SuggestedAction before the start command
ActStartHead ==
    <<"Start", "the", "Docker", "service:">>

\* daemon branch: SuggestedAction after the start command
ActStartTail ==
    <<"Troubleshooting:",
      "https://docs.docker.com/config/daemon/troubleshoot/">>

\* darwin permission branch: ErrorMessage before the captured stderr
MsgDesktop ==
    <<"Cannot", "connect", "to", "Docker", "Desktop.", "Docker",
      "error:">>

\* darwin permission branch: SuggestedAction
ActDesktop ==
    <<"Make", "sure", "Docker", "Desktop", "is", "running:", "1.", "Open",
      "Docker", "Desktop", "application", "2.", "Wait", "for", "it", "to",
      "start", "completely", "3.", "Check", "that", "the", "Docker",
      "icon", "in", "the", "menu", "bar", "shows", "it's", "running",
      "If", "issues", "persist,", "try", "restarting", "Docker",
      "Desktop.", "Docker", "Desktop", "guide:",
      "https://docs.docker.com/desktop/install/mac-install/">>

\* socket branch: ErrorMessage before the socket error
MsgSocketHead ==
    <<"You're", "in", "the", "docker", "group,", "but", "the", "socket",
      "has", "incorrect", "permissions.", "Socket", "error:">>

\* socket branch: ErrorMessage between socket error and stderr
MsgDockerError ==
    <<"Docker", "error:">>

\* socket branch: SuggestedAction before the restart command
ActSocketHead ==
    <<"Fix", "the", "Docker", "socket", "permissions:", "sudo", "chown",
      "root:docker", "/var/run/docker.sock", "sudo", "chmod", "660",
      "/var/run/docker.sock", "Or", "restart", "Docker", "to", "recreate",
      "the", "socket:">>

\* socket branch: SuggestedAction after the restart command
ActSocketTail ==
    <<"Guide:",
      "https://docs.docker.com/engine/install/linux-postinstall/">>

\* group-not-refreshed branch: ErrorMessage before the stderr
MsgNotRefreshed ==
    <<"You're", "in", "the", "docker", "group", "but", "your", "session",
      "hasn't", "been", "refreshed.", "Docker", "error:">>

\* group-not-refreshed branch: SuggestedAction
ActRelogin ==
    <<"Log", "out", "and", "log", "back", "in", "to", "refresh", "your",
      "group", "membership.", "More", "info:",
      "https://docs.docker.com/engine/install/linux-postinstall/#manage-docker-as-a-non-root-user">>

\* create-group and add-user branches: ErrorMessage before the stderr
MsgCannotCommunicate ==
    <<"Cannot", "communicate", "with", "the", "Docker", "daemon.",
      "Docker", "error:">>

\* create-group branch: SuggestedAction
ActCreateGroup ==
    <<"The", "'docker'", "group", "doesn't", "exist.", "Create", "it",
      "and", "add", "your", "user:", "sudo", "groupadd", "docker", "sudo",
      "usermod", "-aG", "docker", "$USER", "Then", "log", "out", "and",
      "back", "in.", "Guide:",
      "https://docs.docker.com/engine/install/linux-postinstall/#manage-docker-as-a-non-root-user">>

\* add-user branch: SuggestedAction
ActAddUser ==
    <<"Add", "your", "user", "to", "the", "'docker'", "group:", "sudo",
      "usermod", "-aG", "docker", "$USER", "Then", "log", "out", "and",
      "back", "in.", "Guide:",
      "https://docs.docker.com/engine/install/linux-postinstall/#manage-docker-as-a-non-root-user">>

\* fallback branch: ErrorMessage before the stderr
MsgFallback ==
    <<"Docker", "error:">>

\* fallback branch: SuggestedAction before the start command
ActFallbackHead ==
    <<"Check", "Docker", "installation", "and", "try:">>

\* fallback branch: SuggestedAction after the start command
ActFallbackTail ==
    <<"Docker", "docs:", "https://docs.docker.com/">>

\* checkDockerSocketPermissions: os.Stat failed
SockNotFound ==
    <<"Docker", "socket", "not", "found", "at", "/var/run/docker.sock">>

\* checkDockerSocketPermissions: os.IsPermission(err), before %v
SockInsufficient ==
    <<"Socket", "exists", "but", "insufficient", "permissions:">>

\* checkDockerSocketPermissions: any other open error, before %v
SockCannotAccess ==
    <<"Cannot", "access", "socket:">>

(***************************************************************************)
(* The host: everything RunPreChecks reads.  A host is fixed for a run of  *)
(* the model except for the daemon's answer to `docker info` (daemonOk),   *)
(* which the environment may change at any time.                           *)
(***************************************************************************)

\* the commands the code looks up on PATH
Commands ==
    {"docker", "grep", "id", "systemctl", "rc-service", "sv"}

\* the phrases checkDockerDaemon searches the captured stderr for
PhraseIsRunning ==
    <<"Is", "the", "docker", "daemon", "running">>

PhraseCannotConnect ==
    <<"cannot", "connect", "to", "the", "Docker", "daemon">>

PhrasePermissionDenied ==
    <<"permission", "denied">>

PhraseDialUnix ==
    <<"dial", "unix">>

\* what the docker CLI prints when the daemon is down starts with a capital C
DockerCannotConnect ==
    <<"Cannot", "connect", "to", "the", "Docker", "daemon">>

\* the fragments a failing `docker info` may print
StderrPhrases ==
    <<DockerCannotConnect, PhraseCannotConnect, PhraseIsRunning,
      PhrasePermissionDenied, PhraseDialUnix>>

\* at most this many fragments in one stderr text
MaxPhrases ==
    2

\* the fragments with index in S, in order, each followed by a separator word
RECURSIVE JoinPhrases(_, _)
JoinPhrases(S, i) ==
    IF i > Len(StderrPhrases) THEN <<>>
    ELSE (IF i \in S THEN StderrPhrases[i] \o <<";">> ELSE <<>>)
         \o JoinPhrases(S, i + 1)

StderrTexts ==
    {JoinPhrases(S, 1) :
        S \in {T \in SUBSET (1..Len(StderrPhrases)) : Cardinality(T) <= MaxPhrases}}

\* the name user.Current() reports
UserName ==
    <<"a", "l">>

Users ==
    {[found |-> TRUE, name |-> UserName], [found |-> FALSE, name |-> <<>>]}

\* /etc/group: no docker group; a docker group (not on the first line) that
\* does not list the user; a docker group that lists the user; a file that
\* cannot be read
GroupDbs ==
    {[readable |-> TRUE, text |->
        <<"r", "o", "o", "t", ":", "x", ":", "0", ":", "\n">>],
     [readable |-> TRUE, text |->
        <<"r", "o", "o", "t", ":", "x", ":", "0", ":", "\n",
          "d", "o", "c", "k", "e", "r", ":", "x", ":", "9", "9", "9", ":",
          "b", "o", "\n">>],
     [readable |-> TRUE, text |->
        <<"d", "o", "c", "k", "e", "r", ":", "x", ":", "9", "9", "9", ":",
          "b", "o", ",", "a", "l", "\n">>],
     [readable |-> FALSE, text |-> <<>>]}

\* `id -nG`: docker among the active groups; not among them; id fails
IdOutputs ==
    {[ok |-> TRUE, out |-> <<"a", "l", " ", "d", "o", "c", "k", "e", "r", "\n">>],
     [ok |-> TRUE, out |-> <<"a", "l", " ", "w", "h", "e", "e", "l", "\n">>],
     [ok |-> FALSE, out |-> <<>>]}

\* /var/run/docker.sock: absent; open fails with EACCES; open fails with
\* another error; open succeeds
SocketStates ==
    {"missing", "eacces", "enxio", "openable"}

\* a command that is not on PATH has no outcome to vary
IdFailed ==
    [ok |-> FALSE, out |-> <<>>]

LinuxHosts ==
    {h \in [goos : {"linux"}, path : SUBSET Commands, stderr : StderrTexts,
            group : GroupDbs, user : Users, id : IdOutputs, socket : SocketStates] :
        /\ "id" \notin h.path => h.id = IdFailed
        /\ "docker" \notin h.path => h.stderr = <<>>}

\* Docker Desktop on macOS uses no docker group: the user is known, and the
\* group database and `id -nG` have their stock content
DarwinHosts ==
    {h \in [goos : {"darwin"}, path : SUBSET Commands, stderr : StderrTexts,
            group : {g \in GroupDbs : g.readable}, user : {u \in Users : u.found},
            id : {i \in IdOutputs : i.ok}, socket : {"missing", "openable"}] :
        /\ "id" \in h.path
        /\ "grep" \in h.path
        /\ "docker" \notin h.path => h.stderr = <<>>}

Hosts ==
    LinuxHosts \cup DarwinHosts

VARIABLES
    host,          \* the host facts RunPreChecks reads
    daemonOk,      \* whether `docker info` exits zero when run now
    pc,            \* position in RunPreChecks
    stderrOutput,  \* checkDockerDaemon: the captured stderr
    primary,       \* outcome of the first `docker info` of this call
    recheck,       \* outcome of isDaemonRunning in this call
    trace,         \* the OS calls and sub-checks of this call, in order
    result,        \* the PreCheckResult of the last completed call
    quiet,         \* calls begun since daemonOk last changed, at most 2
    app,           \* main.go: the process running main and runApp
    marker,        \* whether the restart marker file exists
    upd,           \* update.go: the run of UpdateCommand
    job,           \* a pure function's inputs and, once applied, its output
    inst           \* install.sh: one run of the script

vars ==
    <<host, daemonOk, pc, stderrOutput, primary, recheck, trace, result,
      quiet, app, marker, upd, job, inst>>

\* main is not running; UpdateCommand is not running; no function is applied
NoApp ==
    [pc |-> "off"]

NoUpdate ==
    [pc |-> "off"]

NoJob ==
    [fn |-> "none"]

\* install.sh is not running
NoInstall ==
    [pc |-> "off"]

\* no call has returned yet
NoResult ==
    [Passed |-> FALSE, ErrorType |-> "none", ErrorMessage |-> <<>>,
     SuggestedAction |-> <<>>]

(***************************************************************************)
(* The functions of precheck.go.  A function that calls the OS returns its *)
(* Go results together with `calls`, the OS calls it made, in order.       *)
(***************************************************************************)

\* a comparison with a string that GOOS never has
isDarwin_misspelt(h) ==
    h.goos = "macos"

\* runtime.GOOS == "darwin"
isDarwin(h) ==
    h.goos = "darwin"

\* commandExists: exec.LookPath(cmd) succeeds
commandExists(h, cmd) ==
    cmd \in h.path

LookPath(cmd) ==
    <<"LookPath", cmd>>

\* the init-system commands probed, in the order of the if-chain
InitProbes ==
    <<"systemctl", "rc-service", "sv">>

\* the probes an if-chain over InitProbes makes: up to the first one found
RECURSIVE ProbesFrom(_, _)
ProbesFrom(h, i) ==
    IF i > Len(InitProbes) THEN <<>>
    ELSE <<LookPath(InitProbes[i])>>
         \o (IF commandExists(h, InitProbes[i]) THEN <<>> ELSE ProbesFrom(h, i + 1))

getDockerStartCommand(h) ==
    IF isDarwin(h) THEN [ret |-> StartDarwin, calls |-> <<>>]
    ELSE [ret |-> IF commandExists(h, "systemctl")
                    THEN <<"sudo", "systemctl", "start", "docker">>
                  ELSE IF commandExists(h, "rc-service")
                    THEN <<"sudo", "rc-service", "docker", "start">>
                  ELSE IF commandExists(h, "sv")
                    THEN <<"sudo", "sv", "up", "docker">>
                  ELSE <<"sudo", "service", "docker", "start">>,
          calls |-> ProbesFrom(h, 1)]

\* the if-chain with sv probed before rc-service
getDockerRestartCommand_svFirst(h) ==
    IF isDarwin(h) THEN [ret |-> RestartDarwin, calls |-> <<>>]
    ELSE [ret |-> IF commandExists(h, "systemctl")
                    THEN <<"sudo", "systemctl", "restart", "docker">>
                  ELSE IF commandExists(h, "sv")
                    THEN <<"sudo", "sv", "restart", "docker">>
                  ELSE IF commandExists(h, "rc-service")
                    THEN <<"sudo", "rc-service", "docker", "restart">>
                  ELSE <<"sudo", "service", "docker", "restart">>,
          calls |-> ProbesFrom(h, 1)]

getDockerRestartCommand(h) ==
    IF isDarwin(h) THEN [ret |-> RestartDarwin, calls |-> <<>>]
    ELSE [ret |-> IF commandExists(h, "systemctl")
                    THEN <<"sudo", "systemctl", "restart", "docker">>
                  ELSE IF commandExists(h, "rc-service")
                    THEN <<"sudo", "rc-service", "docker", "restart">>
                  ELSE IF commandExists(h, "sv")
                    THEN <<"sudo", "sv", "restart", "docker">>
                  ELSE <<"sudo", "service", "docker", "restart">>,
          calls |-> ProbesFrom(h, 1)]

\* the lines of a text file: the pieces between newlines, without the empty
\* piece after a final newline
FileLines(text) ==
    LET parts == Split(text, "\n") IN
    IF parts[Len(parts)] = <<>> THEN SubSeq(parts, 1, Len(parts) - 1) ELSE parts

DockerColon ==
    <<"d", "o", "c", "k", "e", "r", ":">>

\* exec.Command("grep", "^docker:", "/etc/group"): every line that starts
\* with docker: is printed with a newline; the exit status is non-zero when
\* no line matches or the file cannot be read
RECURSIVE GrepOut(_)
GrepOut(lines) ==
    IF lines = <<>> THEN <<>>
    ELSE (IF HasPrefix(Head(lines), DockerColon) THEN Head(lines) \o <<"\n">> ELSE <<>>)
         \o GrepOut(Tail(lines))

grepDocker(h) ==
    LET out == IF h.group.readable THEN GrepOut(FileLines(h.group.text)) ELSE <<>>
    IN  [err |-> out = <<>>, out |-> out]

doesDockerGroupExist(h) ==
    IF isDarwin(h) THEN [ret |-> FALSE, calls |-> <<>>]
    ELSE IF ~commandExists(h, "grep")
      THEN [ret |-> /\ h.group.readable
                    /\ \/ Contains(h.group.text, <<"\n">> \o DockerColon)
                       \/ HasPrefix(h.group.text, DockerColon),
            calls |-> <<LookPath("grep"), <<"ReadFile", "/etc/group">>>>]
    ELSE [ret |-> ~grepDocker(h).err,
          calls |-> <<LookPath("grep"), <<"exec", "grep">>>>]

\* the first line with the prefix docker:, or the empty string
RECURSIVE FirstDockerLine(_)
FirstDockerLine(lines) ==
    IF lines = <<>> THEN <<>>
    ELSE IF HasPrefix(Head(lines), DockerColon) THEN Head(lines)
    ELSE FirstDockerLine(Tail(lines))

\* lines 151-170: the member list of the line in `output`
userInLine(output, username) ==
    LET parts == Split(output, ":") IN
    IF Len(parts) < 4 THEN FALSE
    ELSE LET usersInGroup == TrimSpace(parts[4]) IN
         IF usersInGroup = <<>> THEN FALSE
         ELSE LET users == Split(usersInGroup, ",") IN
              \E i \in 1..Len(users) : TrimSpace(users[i]) = username

isUserInDockerGroup(h) ==
    IF isDarwin(h) THEN [ret |-> FALSE, err |-> FALSE, calls |-> <<>>]
    ELSE IF ~h.user.found
      THEN [ret |-> FALSE, err |-> TRUE, calls |-> <<<<"syscall", "user.Current">>>>]
    ELSE IF commandExists(h, "grep")
      THEN LET g == grepDocker(h)
               c == <<<<"syscall", "user.Current">>, LookPath("grep"), <<"exec", "grep">>>>
           IN  IF g.err THEN [ret |-> FALSE, err |-> TRUE, calls |-> c]
               ELSE [ret |-> userInLine(g.out, h.user.name), err |-> FALSE, calls |-> c]
    ELSE LET c == <<<<"syscall", "user.Current">>, LookPath("grep"),
                    <<"ReadFile", "/etc/group">>>>
         IN  IF ~h.group.readable THEN [ret |-> FALSE, err |-> TRUE, calls |-> c]
             ELSE LET output == FirstDockerLine(Split(h.group.text, "\n"))
                  IN  IF Len(output) = 0 THEN [ret |-> FALSE, err |-> FALSE, calls |-> c]
                      ELSE [ret |-> userInLine(output, h.user.name), err |-> FALSE,
                            calls |-> c]

\* a missing or failing id counts as docker being active
isDockerInActiveGroups_assumeActive(h) ==
    IF isDarwin(h) THEN [ret |-> FALSE, err |-> FALSE, calls |-> <<>>]
    ELSE IF ~commandExists(h, "id")
      THEN [ret |-> TRUE, err |-> FALSE, calls |-> <<LookPath("id")>>]
    ELSE LET c == <<LookPath("id"), <<"exec", "id">>>> IN
         IF ~h.id.ok THEN [ret |-> TRUE, err |-> TRUE, calls |-> c]
         ELSE LET groups == Fields(h.id.out) IN
              [ret |-> \E i \in 1..Len(groups) : groups[i] = <<"d", "o", "c", "k", "e", "r">>,
               err |-> FALSE, calls |-> c]

isDockerInActiveGroups(h) ==
    IF isDarwin(h) THEN [ret |-> FALSE, err |-> FALSE, calls |-> <<>>]
    ELSE IF ~commandExists(h, "id")
      THEN [ret |-> FALSE, err |-> FALSE, calls |-> <<LookPath("id")>>]
    ELSE LET c == <<LookPath("id"), <<"exec", "id">>>> IN
         IF ~h.id.ok THEN [ret |-> FALSE, err |-> TRUE, calls |-> c]
         ELSE LET groups == Fields(h.id.out) IN
              [ret |-> \E i \in 1..Len(groups) : groups[i] = <<"d", "o", "c", "k", "e", "r">>,
               err |-> FALSE, calls |-> c]

SocketPath ==
    "/var/run/docker.sock"

checkDockerSocketPermissions(h) ==
    IF isDarwin(h) THEN [hasAccess |-> TRUE, errorMsg |-> <<>>, calls |-> <<>>]
    ELSE IF h.socket = "missing"
      THEN [hasAccess |-> FALSE, errorMsg |-> SockNotFound,
            calls |-> <<<<"Stat", SocketPath>>>>]
    ELSE IF h.socket = "eacces"
      THEN [hasAccess |-> FALSE,
            errorMsg |-> SockInsufficient
                         \o <<"open", "/var/run/docker.sock:", "permission", "denied">>,
            calls |-> <<<<"Stat", SocketPath>>, <<"OpenFile", SocketPath>>>>]
    ELSE IF h.socket = "enxio"
      THEN [hasAccess |-> FALSE,
            errorMsg |-> SockCannotAccess
                         \o <<"open", "/var/run/docker.sock:", "no", "such", "device",
                              "or", "address">>,
            calls |-> <<<<"Stat", SocketPath>>, <<"OpenFile", SocketPath>>>>]
    ELSE [hasAccess |-> TRUE, errorMsg |-> <<>>,
          calls |-> <<<<"Stat", SocketPath>>, <<"OpenFile", SocketPath>>,
                      <<"Close", SocketPath>>>>]

\* the lookup's error is dropped
checkDockerInstalled_unchecked(h) ==
    PassedResult

checkDockerInstalled(h) ==
    IF ~commandExists(h, "docker")
      THEN PreCheckResult(FALSE, "DockerNotInstalled", MsgNotInstalled, ActNotInstalled)
    ELSE PassedResult

(***************************************************************************)
(* checkDockerDaemon, branch by branch.                                    *)
(***************************************************************************)

\* lines 257-258: the phrases that mean the daemon is down
daemonPhrase(s) ==
    \/ Contains(s, PhraseIsRunning)
    \/ Contains(s, PhraseCannotConnect)

\* lines 271-272
permissionPhrase(s) ==
    \/ Contains(s, PhrasePermissionDenied)
    \/ Contains(s, PhraseDialUnix)

\* lines 260-267
daemonNotRunningResult(h, s) ==
    LET start == getDockerStartCommand(h) IN
    [ret |-> PreCheckResult(FALSE, "DockerDaemonNotRunning", MsgDaemonNotRunning \o s,
                            ActStartHead \o start.ret \o ActStartTail),
     calls |-> start.calls]

\* lines 275-287
desktopResult(s) ==
    PreCheckResult(FALSE, "DockerPermissionDenied", MsgDesktop \o s, ActDesktop)

\* the condition without the active-groups fact
socketMismatch_noActive(inGroupFile, inActiveGroups, hasSocketAccess) ==
    inGroupFile /\ ~hasSocketAccess

\* line 297
socketMismatch(inGroupFile, inActiveGroups, hasSocketAccess) ==
    inGroupFile /\ inActiveGroups /\ ~hasSocketAccess

\* lines 297-346: the decision on the three facts
groupDecision(h, s, inGroupFile, inActiveGroups, sock) ==
    IF socketMismatch(inGroupFile, inActiveGroups, sock.hasAccess)
      THEN LET restart == getDockerRestartCommand(h) IN
           [ret |-> PreCheckResult(FALSE, "DockerPermissionDenied",
                        MsgSocketHead \o sock.errorMsg \o MsgDockerError \o s,
                        ActSocketHead \o restart.ret \o ActSocketTail),
            calls |-> restart.calls]
    ELSE IF inGroupFile /\ ~inActiveGroups
      THEN [ret |-> PreCheckResult(FALSE, "DockerGroupNotRefreshed",
                        MsgNotRefreshed \o s, ActRelogin),
            calls |-> <<>>]
    ELSE LET exists == doesDockerGroupExist(h)
             c == <<<<"call", "doesDockerGroupExist">>>> \o exists.calls
         IN  IF ~exists.ret
               THEN [ret |-> PreCheckResult(FALSE, "DockerPermissionDenied",
                                 MsgCannotCommunicate \o s, ActCreateGroup),
                     calls |-> c]
             ELSE [ret |-> PreCheckResult(FALSE, "DockerPermissionDenied",
                               MsgCannotCommunicate \o s, ActAddUser),
                   calls |-> c]

\* lines 270-347
permissionResult(h, s) ==
    IF isDarwin(h) THEN [ret |-> desktopResult(s), calls |-> <<>>]
    ELSE LET a == isUserInDockerGroup(h)
             b == isDockerInActiveGroups(h)
             sock == checkDockerSocketPermissions(h)
             d == groupDecision(h, s, a.ret, b.ret, sock)
         IN  [ret |-> d.ret,
              calls |-> <<<<"call", "isUserInDockerGroup">>>> \o a.calls
                        \o <<<<"call", "isDockerInActiveGroups">>>> \o b.calls
                        \o <<<<"call", "checkDockerSocketPermissions">>>> \o sock.calls
                        \o d.calls]

\* the message is the captured stderr alone
fallbackResult_rawStderr(h, s) ==
    LET start == getDockerStartCommand(h) IN
    [ret |-> PreCheckResult(FALSE, "DockerDaemonNotRunning", s,
                            ActFallbackHead \o start.ret \o ActFallbackTail),
     calls |-> start.calls]

\* lines 349-357
fallbackResult(h, s) ==
    LET start == getDockerStartCommand(h) IN
    [ret |-> PreCheckResult(FALSE, "DockerDaemonNotRunning", MsgFallback \o s,
                            ActFallbackHead \o start.ret \o ActFallbackTail),
     calls |-> start.calls]

\* a buffer that outlives the call: each run appends to it
capturedStderr_shared ==
    stderrOutput \o host.stderr

\* lines 245-254: cmd.Stderr = &stderr, a buffer declared in this call
capturedStderr ==
    host.stderr

\* exec.Command("docker", "info").Run() returns nil
dockerInfoOk ==
    daemonOk

DockerInfo ==
    <<"exec", "docker info">>

(***************************************************************************)
(* The state machine.                                                      *)
(***************************************************************************)

Init ==
    /\ host \in Hosts
    /\ daemonOk \in BOOLEAN
    /\ "docker" \notin host.path => ~daemonOk
    /\ pc = "idle"
    /\ stderrOutput = <<>>
    /\ primary = "none"
    /\ recheck = "none"
    /\ trace = <<>>
    /\ result = NoResult
    /\ quiet = 0
    /\ app = NoApp
    /\ marker = FALSE
    /\ upd = NoUpdate
    /\ job = NoJob
    /\ inst = NoInstall

\* a return statement of RunPreChecks
Return(r) ==
    /\ pc' = "idle"
    /\ result' = r

\* the caller enters RunPreChecks (main.go:86)
RunPreChecks ==
    /\ pc = "idle"
    /\ pc' = "checkInstalled"
    /\ trace' = <<>>
    /\ primary' = "none"
    /\ recheck' = "none"
    /\ quiet' = IF quiet < 2 THEN quiet + 1 ELSE 2
    /\ UNCHANGED <<host, daemonOk, stderrOutput, result>>

\* Check 1 (lines 369-372)
CheckInstalled ==
    /\ pc = "checkInstalled"
    /\ trace' = trace \o <<LookPath("docker")>>
    /\ LET r == checkDockerInstalled(host) IN
       IF ~r.Passed THEN Return(r)
       ELSE /\ pc' = "checkDaemon"
            /\ UNCHANGED result
    /\ UNCHANGED <<host, daemonOk, stderrOutput, primary, recheck, quiet>>

\* the return on success is missing: the classification runs on an empty
\* stderr
RunDockerInfo_noEarlyReturn ==
    /\ pc = "checkDaemon"
    /\ trace' = trace \o <<DockerInfo>>
    /\ primary' = IF dockerInfoOk THEN "ok" ELSE "fail"
    /\ stderrOutput' = IF dockerInfoOk THEN <<>> ELSE capturedStderr
    /\ pc' = "classify"
    /\ UNCHANGED <<host, daemonOk, recheck, quiet, result>>

\* checkDockerDaemon up to the captured stderr (lines 245-254)
RunDockerInfo ==
    /\ pc = "checkDaemon"
    /\ trace' = trace \o <<DockerInfo>>
    /\ IF dockerInfoOk
         THEN /\ primary' = "ok"
              /\ Return(PassedResult)
              /\ UNCHANGED stderrOutput
         ELSE /\ primary' = "fail"
              /\ stderrOutput' = capturedStderr
              /\ pc' = "classify"
              /\ UNCHANGED result
    /\ UNCHANGED <<host, daemonOk, recheck, quiet>>

\* "Check daemon status FIRST" (lines 256-268); isDaemonRunning (361-365)
\* runs only when neither phrase is found
CheckDaemonStatus ==
    /\ pc = "classify"
    /\ IF daemonPhrase(stderrOutput)
         THEN LET d == daemonNotRunningResult(host, stderrOutput) IN
              /\ trace' = trace \o d.calls
              /\ Return(d.ret)
              /\ UNCHANGED recheck
       ELSE IF ~dockerInfoOk
         THEN LET d == daemonNotRunningResult(host, stderrOutput) IN
              /\ recheck' = "fail"
              /\ trace' = trace \o <<<<"call", "isDaemonRunning">>, DockerInfo>> \o d.calls
              /\ Return(d.ret)
       ELSE /\ recheck' = "ok"
            /\ trace' = trace \o <<<<"call", "isDaemonRunning">>, DockerInfo>>
            /\ pc' = "diagnose"
            /\ UNCHANGED result
    /\ UNCHANGED <<host, daemonOk, stderrOutput, primary, quiet>>

\* the diagnosis repairs the socket's mode on its way
Diagnose_chmodSocket ==
    /\ pc = "diagnose"
    /\ LET d == IF permissionPhrase(stderrOutput)
                  THEN permissionResult(host, stderrOutput)
                ELSE fallbackResult(host, stderrOutput)
       IN  /\ trace' = trace \o d.calls
           /\ Return(d.ret)
    /\ host' = [host EXCEPT !.socket = "openable"]
    /\ UNCHANGED <<daemonOk, stderrOutput, primary, recheck, quiet>>

\* the permission branch or the fallback (lines 270-357)
Diagnose ==
    /\ pc = "diagnose"
    /\ LET d == IF permissionPhrase(stderrOutput)
                  THEN permissionResult(host, stderrOutput)
                ELSE fallbackResult(host, stderrOutput)
       IN  /\ trace' = trace \o d.calls
           /\ Return(d.ret)
    /\ UNCHANGED <<host, daemonOk, stderrOutput, primary, recheck, quiet>>

\* the environment: the daemon starts or stops, or access to it changes
DaemonChanges ==
    /\ "docker" \in host.path
    /\ daemonOk' = ~daemonOk
    /\ quiet' = 0
    /\ UNCHANGED <<host, pc, stderrOutput, primary, recheck, trace, result>>

Next ==
    \/ RunPreChecks /\ UNCHANGED <<app, marker, upd, job, inst>>
    \/ CheckInstalled /\ UNCHANGED <<app, marker, upd, job, inst>>
    \/ RunDockerInfo /\ UNCHANGED <<app, marker, upd, job, inst>>
    \/ CheckDaemonStatus /\ UNCHANGED <<app, marker, upd, job, inst>>
    \/ Diagnose /\ UNCHANGED <<app, marker, upd, job, inst>>
    \/ DaemonChanges /\ UNCHANGED <<app, marker, upd, job, inst>>

Spec ==
    Init /\ [][Next]_vars

(***************************************************************************)
(* The functions that parse a text or choose a command, applied to inputs  *)
(* of their own: `job` holds the inputs and, once applied, the outputs.    *)
(***************************************************************************)

\* the longest group database, in lines
MaxLines ==
    2

\* lines of /etc/group: another group; docker listing al; a docker line
\* listing bo; docker with an empty member list; docker with three fields;
\* a group whose name starts with docker; members written with blanks; a
\* member whose name starts with al
GroupLines ==
    {<<"r", "o", "o", "t", ":", "x", ":", "0", ":">>,
     <<"d", "o", "c", "k", "e", "r", ":", "x", ":", "9", "9", "9", ":", "a", "l">>,
     <<"d", "o", "c", "k", "e", "r", ":", "x", ":", "1", "0", "0", "0", ":", "b", "o">>,
     <<"d", "o", "c", "k", "e", "r", ":", "x", ":", "9", "9", "9", ":">>,
     <<"d", "o", "c", "k", "e", "r", ":", "x", ":", "9", "9", "9">>,
     <<"d", "o", "c", "k", "e", "r", "r", "o", "o", "t", ":", "x", ":", "9", "9", "8", ":", "a", "l">>,
     <<"d", "o", "c", "k", "e", "r", ":", "x", ":", "9", "9", "9", ":", "b", "o", ",", " ", "a", "l", " ">>,
     <<"d", "o", "c", "k", "e", "r", ":", "x", ":", "9", "9", "9", ":", "a", "l", "i", "c", "e">>}

UserNames ==
    {<<"a", "l">>, <<"b", "o">>}

\* a file of these lines, each ended by a newline
RECURSIVE JoinLines(_)
JoinLines(lines) ==
    IF lines = <<>> THEN <<>>
    ELSE Head(lines) \o <<"\n">> \o JoinLines(Tail(lines))

GroupTexts ==
    {JoinLines(ls) : ls \in UNION {[1..n -> GroupLines] : n \in 0..MaxLines}}

\* a Linux host with this group database and this user, grep on PATH or not
GroupHost(text, name, grep) ==
    [goos |-> "linux", path |-> IF grep THEN {"grep"} ELSE {}, stderr |-> <<>>,
     group |-> [readable |-> TRUE, text |-> text],
     user |-> [found |-> TRUE, name |-> name], id |-> IdFailed,
     socket |-> "missing"]

\* a host with these init-system commands on PATH
InitHost(goos, path) ==
    [goos |-> goos, path |-> path, stderr |-> <<>>,
     group |-> [readable |-> FALSE, text |-> <<>>],
     user |-> [found |-> FALSE, name |-> <<>>], id |-> IdFailed,
     socket |-> "missing"]

NoOut ==
    [done |-> FALSE]

GroupJobs ==
    {[fn |-> "groupChecks", in |-> [text |-> t, name |-> u], out |-> NoOut] :
        t \in GroupTexts, u \in UserNames}

InitJobs ==
    {[fn |-> "initCommands", in |-> [goos |-> g, path |-> p], out |-> NoOut] :
        g \in {"linux", "darwin"}, p \in SUBSET {"systemctl", "rc-service", "sv"}}

\* isUserInDockerGroup and doesDockerGroupExist on one group database, with
\* grep on PATH (TRUE) and without (FALSE)
ApplyGroupChecks ==
    /\ job.fn = "groupChecks"
    /\ ~job.out.done
    /\ job' = [job EXCEPT !.out =
                 [done |-> TRUE,
                  member |-> [grep \in BOOLEAN |->
                      isUserInDockerGroup(GroupHost(job.in.text, job.in.name, grep)).ret],
                  exists |-> [grep \in BOOLEAN |->
                      doesDockerGroupExist(GroupHost(job.in.text, job.in.name, grep)).ret]]]
    /\ UNCHANGED <<host, daemonOk, pc, stderrOutput, primary, recheck, trace,
                   result, quiet, app, marker, upd, inst>>

\* getDockerStartCommand and getDockerRestartCommand on one host
ApplyInitCommands ==
    /\ job.fn = "initCommands"
    /\ ~job.out.done
    /\ job' = [job EXCEPT !.out =
                 [done |-> TRUE,
                  start |-> getDockerStartCommand(InitHost(job.in.goos, job.in.path)).ret,
                  restart |-> getDockerRestartCommand(InitHost(job.in.goos, job.in.path)).ret]]
    /\ UNCHANGED <<host, daemonOk, pc, stderrOutput, primary, recheck, trace,
                   result, quiet, app, marker, upd, inst>>

\* the most dot-separated segments of a version tag
MaxSegments ==
    2

\* segments of a tag: two plain integers and one that is not an integer
Segments ==
    {<<"9">>, <<"1", "0">>, <<"1", "a">>}

\* segments joined by dots
RECURSIVE JoinDots(_)
JoinDots(segs) ==
    IF Len(segs) = 1 THEN Head(segs)
    ELSE Head(segs) \o <<".">> \o JoinDots(Tail(segs))

\* tags of up to MaxSegments segments, and the one-segment tags with a
\* leading v or V
Tags ==
    {JoinDots(segs) : segs \in UNION {[1..n -> Segments] : n \in 1..MaxSegments}}
    \cup {<<"v">> \o s : s \in Segments}
    \cup {<<"V">> \o s : s \in Segments}

DigitChars ==
    <<"0", "1", "2", "3", "4", "5", "6", "7", "8", "9">>

IsDigit(c) ==
    \E i \in 1..Len(DigitChars) : DigitChars[i] = c

DigitValue(c) ==
    (CHOOSE i \in 1..Len(DigitChars) : DigitChars[i] = c) - 1

\* the byte of a character of a tag
ByteOf(c) ==
    IF IsDigit(c) THEN 48 + DigitValue(c)
    ELSE CASE c = " " -> 32
           [] c = "+" -> 43
           [] c = "-" -> 45
           [] c = "." -> 46
           [] c = "V" -> 86
           [] c = "a" -> 97
           [] c = "v" -> 118

\* the value of a string of digits, read left to right
RECURSIVE DigitsValue(_, _)
DigitsValue(s, acc) ==
    IF s = <<>> THEN acc
    ELSE DigitsValue(Tail(s), acc * 10 + DigitValue(Head(s)))

\* strconv.Atoi: an optional sign and at least one digit, nothing else
Atoi(s) ==
    LET signed == s # <<>> /\ Head(s) \in {"+", "-"}
        digits == IF signed THEN Tail(s) ELSE s
    IN  IF digits = <<>> \/ \E i \in 1..Len(digits) : ~IsDigit(digits[i])
          THEN [ok |-> FALSE, val |-> 0]
        ELSE [ok |-> TRUE,
              val |-> IF signed /\ Head(s) = "-" THEN 0 - DigitsValue(digits, 0)
                      ELSE DigitsValue(digits, 0)]

\* strings.Compare: byte by byte, a proper prefix is smaller
RECURSIVE Compare(_, _)
Compare(a, b) ==
    IF a = <<>> /\ b = <<>> THEN 0
    ELSE IF a = <<>> THEN -1
    ELSE IF b = <<>> THEN 1
    ELSE IF ByteOf(Head(a)) < ByteOf(Head(b)) THEN -1
    ELSE IF ByteOf(Head(a)) > ByteOf(Head(b)) THEN 1
    ELSE Compare(Tail(a), Tail(b))

normalizeTag(tag) ==
    LET t == TrimSpace(tag) IN
    IF HasPrefix(t, <<"v">>) \/ HasPrefix(t, <<"V">>) THEN Tail(t) ELSE t

\* the loop of compareSemver from segment i on
RECURSIVE compareParts(_, _, _, _)
compareParts(a_splited, b_splited, i, n) ==
    IF i > n THEN 0
    ELSE LET a_value == IF i <= Len(a_splited) THEN a_splited[i] ELSE <<>>
             b_value == IF i <= Len(b_splited) THEN b_splited[i] ELSE <<>>
             ai == Atoi(a_value)
             bi == Atoi(b_value)
         IN  IF a_value = b_value THEN compareParts(a_splited, b_splited, i + 1, n)
             ELSE IF ai.ok /\ bi.ok
               THEN IF ai.val < bi.val THEN -1
                    ELSE IF ai.val > bi.val THEN 1
                    ELSE compareParts(a_splited, b_splited, i + 1, n)
             ELSE IF Compare(a_value, b_value) # 0 THEN Compare(a_value, b_value)
             ELSE compareParts(a_splited, b_splited, i + 1, n)

compareSemver(a, b) ==
    LET na == normalizeTag(a)
        nb == normalizeTag(b)
    IN  IF na = nb THEN 0
        ELSE LET a_splited == Split(na, ".")
                 b_splited == Split(nb, ".")
                 n == IF Len(b_splited) > Len(a_splited) THEN Len(b_splited)
                      ELSE Len(a_splited)
             IN  compareParts(a_splited, b_splited, 1, n)

SemverJobs ==
    {[fn |-> "compareSemver", in |-> [a |-> a, b |-> b, c |-> c], out |-> NoOut] :
        a \in Tags, b \in Tags, c \in Tags}

\* compareSemver on the pairs of three tags
ApplyCompareSemver ==
    /\ job.fn = "compareSemver"
    /\ ~job.out.done
    /\ job' = [job EXCEPT !.out =
                 [done |-> TRUE,
                  ab |-> compareSemver(job.in.a, job.in.b),
                  ba |-> compareSemver(job.in.b, job.in.a),
                  bc |-> compareSemver(job.in.b, job.in.c),
                  ac |-> compareSemver(job.in.a, job.in.c)]]
    /\ UNCHANGED <<host, daemonOk, pc, stderrOutput, primary, recheck, trace,
                   result, quiet, app, marker, upd, inst>>

InitPure ==
    /\ job \in GroupJobs \cup InitJobs \cup SemverJobs
    /\ host = InitHost("linux", {})
    /\ daemonOk = FALSE
    /\ pc = "idle"
    /\ stderrOutput = <<>>
    /\ primary = "none"
    /\ recheck = "none"
    /\ trace = <<>>
    /\ result = NoResult
    /\ quiet = 0
    /\ app = NoApp
    /\ marker = FALSE
    /\ upd = NoUpdate
    /\ inst = NoInstall

NextPure ==
    \/ ApplyGroupChecks
    \/ ApplyInitCommands
    \/ ApplyCompareSemver

SpecPure ==
    InitPure /\ [][NextPure]_vars

(***************************************************************************)
(* main.go: main's restart loop around runApp.  One process: `app` is its  *)
(* position, its arguments, runApp's local result, what it printed to      *)
(* stderr and its exit status; `marker` is the restart marker file.        *)
(***************************************************************************)

\* os.Args[1], "" when there is none; logs stands for any other word
Args ==
    {"", "version", "--version", "-v", "update", "--runtime", "logs"}

SubCommands ==
    {"version", "--version", "-v", "update", "--runtime"}

\* the hosts main is run on: docker on PATH or not, every stderr text
MainHosts ==
    {h \in Hosts :
        /\ h.path \in {{"docker", "grep", "id", "systemctl"}, {"grep", "id", "systemctl"}}
        /\ h.group.readable
        /\ Contains(h.group.text, <<"b", "o", ",", "a", "l">>)
        /\ h.user.found
        /\ h.id.ok => Contains(h.id.out, <<"w", "h", "e", "e", "l">>)
        /\ h.socket = "openable"}

\* runApp is entered; checked and tui say whether RunPreChecks was called
\* and the dashboard started in this iteration of main's loop
EnterRunApp(args, restarted) ==
    [pc |-> "runApp", args |-> args, result |-> NoResult, stderr |-> <<>>,
     exit |-> -1, checked |-> FALSE, tui |-> FALSE, restarted |-> restarted,
     sub |-> "none"]

\* case "version", "--version", "-v": print and return false
runApp_version ==
    /\ app.pc = "runApp"
    /\ app.args \in {"version", "--version", "-v"}
    /\ app' = [app EXCEPT !.pc = "exited", !.exit = 0, !.sub = "version"]
    /\ UNCHANGED <<host, daemonOk, pc, stderrOutput, primary, recheck, trace,
                   result, quiet, marker, upd, job, inst>>

\* case "update": update.UpdateCommand() and return false
runApp_update ==
    /\ app.pc = "runApp"
    /\ app.args = "update"
    /\ app' = [app EXCEPT !.pc = "exited", !.exit = 0, !.sub = "update"]
    /\ UNCHANGED <<host, daemonOk, pc, stderrOutput, primary, recheck, trace,
                   result, quiet, marker, upd, job, inst>>

\* case "--runtime": the runtime selector runs; a failed run, a wrong model
\* type, an empty choice and a failed save exit with status 1
runApp_runtime ==
    /\ app.pc = "runApp"
    /\ app.args = "--runtime"
    /\ \E runErr \in BOOLEAN, modelOk \in BOOLEAN, choice \in {"", "docker", "podman"},
          saveErr \in BOOLEAN :
          IF runErr
            THEN app' = [app EXCEPT !.pc = "exited", !.exit = 1, !.sub = "runtime",
                              !.stderr = <<"Runtime selection failed">>]
          ELSE IF ~modelOk
            THEN app' = [app EXCEPT !.pc = "exited", !.exit = 1, !.sub = "runtime",
                              !.stderr = <<"Invalid model type returned">>]
          ELSE IF choice = ""
            THEN app' = [app EXCEPT !.pc = "exited", !.exit = 1, !.sub = "runtime",
                              !.stderr = <<"No runtime selected">>]
          ELSE IF saveErr
            THEN app' = [app EXCEPT !.pc = "exited", !.exit = 1, !.sub = "runtime",
                              !.stderr = <<"Failed to save runtime selection">>]
          ELSE app' = [app EXCEPT !.pc = "exited", !.exit = 0, !.sub = "runtime"]
    /\ UNCHANGED <<host, daemonOk, pc, stderrOutput, primary, recheck, trace,
                   result, quiet, marker, upd, job, inst>>

\* line 86: check.RunPreChecks() is called
runApp_RunPreChecks ==
    /\ app.pc = "runApp"
    /\ app.args \notin SubCommands
    /\ RunPreChecks
    /\ app' = [app EXCEPT !.pc = "prechecks", !.checked = TRUE]
    /\ UNCHANGED <<marker, upd, job, inst>>

\* the dashboard starts whatever RunPreChecks returned
runApp_result_unchecked ==
    /\ app.pc = "prechecks"
    /\ pc = "idle"
    /\ app' = [app EXCEPT !.pc = "tui", !.result = result, !.tui = TRUE]
    /\ UNCHANGED <<host, daemonOk, pc, stderrOutput, primary, recheck, trace,
                   result, quiet, marker, upd, job, inst>>

\* lines 86-97: RunPreChecks has returned; a failing result is printed and
\* the process exits with status 1, else the dashboard program is started
runApp_result ==
    /\ app.pc = "prechecks"
    /\ pc = "idle"
    /\ IF ~result.Passed
         THEN app' = [app EXCEPT !.pc = "exited", !.exit = 1, !.result = result,
                           !.stderr = <<result.ErrorMessage, result.SuggestedAction>>]
       ELSE app' = [app EXCEPT !.pc = "tui", !.result = result, !.tui = TRUE]
    /\ UNCHANGED <<host, daemonOk, pc, stderrOutput, primary, recheck, trace,
                   result, quiet, marker, upd, job, inst>>

\* the dashboard, while it runs, asks for a restart by creating the marker
RestartRequested ==
    /\ app.pc = "tui"
    /\ ~marker
    /\ marker' = TRUE
    /\ UNCHANGED <<host, daemonOk, pc, stderrOutput, primary, recheck, trace,
                   result, quiet, app, upd, job, inst>>

\* lines 98-101: p.Run() returns, with an error or without
runApp_Run ==
    /\ app.pc = "tui"
    /\ \E err \in BOOLEAN :
          IF err
            THEN app' = [app EXCEPT !.pc = "exited", !.exit = 1,
                              !.stderr = <<"Error running TUI">>]
          ELSE app' = [app EXCEPT !.pc = "afterTui"]
    /\ UNCHANGED <<host, daemonOk, pc, stderrOutput, primary, recheck, trace,
                   result, quiet, marker, upd, job, inst>>

\* the marker is left in place when a restart is asked for
runApp_marker_kept ==
    /\ app.pc = "afterTui"
    /\ IF marker
         THEN app' = EnterRunApp(app.args, TRUE)
       ELSE app' = [app EXCEPT !.pc = "exited", !.exit = 0]
    /\ UNCHANGED <<host, daemonOk, pc, stderrOutput, primary, recheck, trace,
                   result, quiet, marker, upd, job, inst>>

\* lines 104-113 and main's loop: when os.Stat finds the marker it is removed
\* and runApp returns true, so main calls runApp again; else runApp returns
\* false and main returns
runApp_marker ==
    /\ app.pc = "afterTui"
    /\ IF marker
         THEN /\ marker' = FALSE
              /\ app' = EnterRunApp(app.args, TRUE)
       ELSE /\ app' = [app EXCEPT !.pc = "exited", !.exit = 0]
            /\ UNCHANGED marker
    /\ UNCHANGED <<host, daemonOk, pc, stderrOutput, primary, recheck, trace,
                   result, quiet, upd, job, inst>>

InitMain ==
    /\ host \in MainHosts
    /\ daemonOk \in BOOLEAN
    /\ "docker" \notin host.path => ~daemonOk
    /\ pc = "idle"
    /\ stderrOutput = <<>>
    /\ primary = "none"
    /\ recheck = "none"
    /\ trace = <<>>
    /\ result = NoResult
    /\ quiet = 0
    /\ app \in {EnterRunApp(a, FALSE) : a \in Args}
    /\ marker \in BOOLEAN
    /\ upd = NoUpdate
    /\ job = NoJob
    /\ inst = NoInstall

NextMain ==
    \/ runApp_version
    \/ runApp_update
    \/ runApp_runtime
    \/ runApp_RunPreChecks
    \/ CheckInstalled /\ UNCHANGED <<app, marker, upd, job, inst>>
    \/ RunDockerInfo /\ UNCHANGED <<app, marker, upd, job, inst>>
    \/ CheckDaemonStatus /\ UNCHANGED <<app, marker, upd, job, inst>>
    \/ Diagnose /\ UNCHANGED <<app, marker, upd, job, inst>>
    \/ runApp_result
    \/ RestartRequested
    \/ runApp_Run
    \/ runApp_marker
    \/ DaemonChanges /\ app.pc # "exited" /\ UNCHANGED <<app, marker, upd, job, inst>>

SpecMain ==
    InitMain /\ [][NextMain]_vars

(***************************************************************************)
(* update.go: UpdateCommand, step by step.  `upd` holds what the run reads *)
(* (the brew facts, the running version), its locals, the commands it ran  *)
(* and the lines it printed.                                               *)
(***************************************************************************)

UpperChars ==
    <<"A", "B", "C", "D", "E", "F", "G", "H", "I", "J", "K", "L", "M", "N", "O", "P", "Q", "R", "S", "T", "U", "V", "W", "X", "Y", "Z">>

LowerChars ==
    <<"a", "b", "c", "d", "e", "f", "g", "h", "i", "j", "k", "l", "m", "n", "o", "p", "q", "r", "s", "t", "u", "v", "w", "x", "y", "z">>

\* strings.ToLower on ASCII text
ToLower(s) ==
    [i \in 1..Len(s) |->
        IF \E k \in 1..Len(UpperChars) : UpperChars[k] = s[i]
          THEN LowerChars[CHOOSE k \in 1..Len(UpperChars) : UpperChars[k] = s[i]]
        ELSE s[i]]

\* os.Executable(): under /usr/local, under a Homebrew prefix, in a Cellar,
\* in the user's home
ExePaths ==
    {<<"/", "u", "s", "r", "/", "l", "o", "c", "a", "l", "/", "b", "i", "n", "/", "d", "o", "c", "k", "m", "a", "t", "e">>,
     <<"/", "o", "p", "t", "/", "h", "o", "m", "e", "b", "r", "e", "w", "/", "b", "i", "n", "/", "d", "o", "c", "k", "m", "a", "t", "e">>,
     <<"/", "u", "s", "r", "/", "l", "o", "c", "a", "l", "/", "C", "e", "l", "l", "a", "r", "/", "d", "o", "c", "k", "m", "a", "t", "e", "/", "b", "i", "n", "/", "d", "o", "c", "k", "m", "a", "t", "e">>,
     <<"/", "h", "o", "m", "e", "/", "a", "l", "/", "b", "i", "n", "/", "d", "o", "c", "k", "m", "a", "t", "e">>}

\* the output of `brew --prefix`
BrewPrefixes ==
    {<<"/", "o", "p", "t", "/", "h", "o", "m", "e", "b", "r", "e", "w", "\n">>,
     <<"/", "h", "o", "m", "e", "/", "a", "l", "\n">>}

\* lines 34-38: the locations looked for when brew is on PATH
BrewLocations ==
    {<<"/", "c", "e", "l", "l", "a", "r", "/", "d", "o", "c", "k", "m", "a", "t", "e">>,
     <<"/", "o", "p", "t", "/", "h", "o", "m", "e", "b", "r", "e", "w">>,
     <<"/", "u", "s", "r", "/", "l", "o", "c", "a", "l", "/", "c", "e", "l", "l", "a", "r">>,
     <<".", "l", "i", "n", "u", "x", "b", "r", "e", "w">>,
     <<"/", "h", "o", "m", "e", "/", "l", "i", "n", "u", "x", "b", "r", "e", "w">>}

\* lines 52-60
homebrewHints ==
    {<<"/", "l", "i", "n", "u", "x", "b", "r", "e", "w", "/">>,
     <<"/", "h", "o", "m", "e", "/", "l", "i", "n", "u", "x", "b", "r", "e", "w", "/">>,
     <<"/", "h", "o", "m", "e", "b", "r", "e", "w", "/">>,
     <<"/", "o", "p", "t", "/", "h", "o", "m", "e", "b", "r", "e", "w", "/">>,
     <<"/", "u", "s", "r", "/", "l", "o", "c", "a", "l", "/", "c", "e", "l", "l", "a", "r", "/">>,
     <<"c", "e", "l", "l", "a", "r", "/", "d", "o", "c", "k", "m", "a", "t", "e">>,
     <<".", "l", "i", "n", "u", "x", "b", "r", "e", "w">>}

\* what isHomebrewInstall reads: brew on PATH, the two `brew list` runs,
\* os.Executable and `brew --prefix`
BrewFacts ==
    {b \in [brewOnPath : BOOLEAN, listTap : BOOLEAN, listPlain : BOOLEAN,
            exe : {[ok |-> FALSE, path |-> <<>>]}
                  \cup {[ok |-> TRUE, path |-> e] : e \in ExePaths},
            prefix : {[ok |-> FALSE, out |-> <<>>]}
                     \cup {[ok |-> TRUE, out |-> p] : p \in BrewPrefixes}] :
        /\ ~b.brewOnPath => (~b.listTap /\ ~b.listPlain /\ ~b.prefix.ok)
        /\ b.listTap => ~b.listPlain}

isHomebrewInstall(b) ==
    \/ /\ b.brewOnPath
       /\ \/ b.listTap
          \/ b.listPlain
          \/ /\ b.exe.ok
             /\ b.prefix.ok
             /\ LET prefix == TrimSpace(b.prefix.out)
                    exeLower == ToLower(b.exe.path)
                IN  \/ HasPrefix(exeLower, ToLower(prefix))
                    \/ \E l \in BrewLocations : Contains(exeLower, l)
    \/ /\ b.exe.ok
       /\ \E h \in homebrewHints : Contains(ToLower(b.exe.path), ToLower(h))

\* version.Dockmate_Version of the running binary
CurrentVersions ==
    {<<"v", "9">>, <<"1", "0">>}

\* tag_name of the latest release: absent, blank, and tags below, equal to
\* and above the current versions
ReleaseTags ==
    {<<>>, <<" ">>, <<"9">>, <<"v", "1", "0">>, <<"1", "0", ".", "9">>, <<"1", "a">>}

\* getLatestReleaseTag: what the request to GitHub comes to
FetchOutcomes ==
    {[kind |-> k, tag |-> <<>>] : k \in {"getErr", "status", "readErr", "jsonErr"}}
    \cup {[kind |-> "ok", tag |-> t] : t \in ReleaseTags}

getLatestReleaseTag(f) ==
    IF f.kind # "ok" THEN [tag |-> <<>>, err |-> TRUE]
    ELSE IF TrimSpace(f.tag) = <<>> THEN [tag |-> <<>>, err |-> TRUE]
    ELSE [tag |-> f.tag, err |-> FALSE]

StartUpdate(b, current) ==
    [pc |-> "start", brew |-> b, current |-> current, homebrew |-> "unknown",
     fetch |-> "none", latestTag |-> <<>>, piped |-> "none", download |-> "none",
     run |-> "none", ran |-> <<>>, out |-> <<>>]

\* lines 168-178: the Homebrew detection comes first
UpdateCommand_homebrew ==
    /\ upd.pc = "start"
    /\ IF isHomebrewInstall(upd.brew)
         THEN upd' = [upd EXCEPT !.pc = "done", !.homebrew = "yes",
                           !.out = <<"Checking for updates...", "brew upgrade">>]
       ELSE upd' = [upd EXCEPT !.pc = "fetch", !.homebrew = "no",
                         !.out = <<"Checking for updates...">>]
    /\ UNCHANGED <<host, daemonOk, pc, stderrOutput, primary, recheck, trace,
                   result, quiet, app, marker, job, inst>>

\* the installer also runs when the versions are equal
UpdateCommand_compare_strict ==
    /\ upd.pc = "fetch"
    /\ \E f \in FetchOutcomes :
          LET r == getLatestReleaseTag(f) IN
          IF r.err
            THEN upd' = [upd EXCEPT !.pc = "done", !.fetch = f.kind,
                              !.out = @ \o <<"Could not check latest release">>]
          ELSE IF compareSemver(upd.current, r.tag) > 0
            THEN upd' = [upd EXCEPT !.pc = "done", !.fetch = f.kind, !.latestTag = r.tag,
                              !.out = @ \o <<"Already up-to-date">>]
          ELSE upd' = [upd EXCEPT !.pc = "piped", !.fetch = f.kind, !.latestTag = r.tag,
                            !.out = @ \o <<"New release available!">>]
    /\ UNCHANGED <<host, daemonOk, pc, stderrOutput, primary, recheck, trace,
                   result, quiet, app, marker, job, inst>>

\* lines 181-197: the latest tag is fetched and compared with the current one
UpdateCommand_compare ==
    /\ upd.pc = "fetch"
    /\ \E f \in FetchOutcomes :
          LET r == getLatestReleaseTag(f) IN
          IF r.err
            THEN upd' = [upd EXCEPT !.pc = "done", !.fetch = f.kind,
                              !.out = @ \o <<"Could not check latest release">>]
          ELSE IF compareSemver(upd.current, r.tag) >= 0
            THEN upd' = [upd EXCEPT !.pc = "done", !.fetch = f.kind, !.latestTag = r.tag,
                              !.out = @ \o <<"Already up-to-date">>]
          ELSE upd' = [upd EXCEPT !.pc = "piped", !.fetch = f.kind, !.latestTag = r.tag,
                            !.out = @ \o <<"New release available!">>]
    /\ UNCHANGED <<host, daemonOk, pc, stderrOutput, primary, recheck, trace,
                   result, quiet, app, marker, job, inst>>

\* lines 199-204 and 229-233: curl | bash
UpdateCommand_piped ==
    /\ upd.pc = "piped"
    /\ \E ok \in BOOLEAN :
          IF ok
            THEN upd' = [upd EXCEPT !.pc = "done", !.piped = "ok",
                              !.ran = @ \o <<"curl | bash">>,
                              !.out = @ \o <<"Updated successfully!">>]
          ELSE upd' = [upd EXCEPT !.pc = "download", !.piped = "fail",
                            !.ran = @ \o <<"curl | bash">>,
                            !.out = @ \o <<"Piped install failed">>]
    /\ UNCHANGED <<host, daemonOk, pc, stderrOutput, primary, recheck, trace,
                   result, quiet, app, marker, job, inst>>

\* lines 207-212: the script is downloaded
UpdateCommand_download ==
    /\ upd.pc = "download"
    /\ \E ok \in BOOLEAN :
          IF ok
            THEN upd' = [upd EXCEPT !.pc = "run", !.download = "ok",
                              !.ran = @ \o <<"curl -o install.sh">>]
          ELSE upd' = [upd EXCEPT !.pc = "done", !.download = "fail",
                            !.ran = @ \o <<"curl -o install.sh">>,
                            !.out = @ \o <<"Failed to download install script">>]
    /\ UNCHANGED <<host, daemonOk, pc, stderrOutput, primary, recheck, trace,
                   result, quiet, app, marker, job, inst>>

\* lines 214-233: the script is run and removed
UpdateCommand_run ==
    /\ upd.pc = "run"
    /\ \E ok \in BOOLEAN, removed \in BOOLEAN :
          IF ~ok
            THEN upd' = [upd EXCEPT !.pc = "done", !.run = "fail",
                              !.ran = @ \o <<"bash install.sh", "rm install.sh">>,
                              !.out = @ \o <<"Update failed">>]
          ELSE upd' = [upd EXCEPT !.pc = "done", !.run = "ok",
                            !.ran = @ \o <<"bash install.sh", "rm install.sh">>,
                            !.out = @ \o (IF removed THEN <<>>
                                          ELSE <<"Warning: could not remove install.sh">>)
                                      \o <<"Updated successfully!">>]
    /\ UNCHANGED <<host, daemonOk, pc, stderrOutput, primary, recheck, trace,
                   result, quiet, app, marker, job, inst>>

InitUpdate ==
    /\ upd \in {StartUpdate(b, c) : b \in BrewFacts, c \in CurrentVersions}
    /\ host = InitHost("linux", {})
    /\ daemonOk = FALSE
    /\ pc = "idle"
    /\ stderrOutput = <<>>
    /\ primary = "none"
    /\ recheck = "none"
    /\ trace = <<>>
    /\ result = NoResult
    /\ quiet = 0
    /\ app = NoApp
    /\ marker = FALSE
    /\ job = NoJob
    /\ inst = NoInstall

NextUpdate ==
    \/ UpdateCommand_homebrew
    \/ UpdateCommand_compare
    \/ UpdateCommand_piped
    \/ UpdateCommand_download
    \/ UpdateCommand_run

SpecUpdate ==
    InitUpdate /\ [][NextUpdate]_vars

(***************************************************************************)
(* install.sh, section by section.  The script runs under set -euo         *)
(* pipefail: a failing command outside a condition ends the run with a     *)
(* non-zero status.  `inst` holds what the run reads, the outcome of each  *)
(* command, the lines printed, and whether INSTALL_DIR/dockmate has become *)
(* the downloaded binary.                                                  *)
(***************************************************************************)

\* $(...) drops the newlines that end a command's output
RECURSIVE StripNewlines(_)
StripNewlines(s) ==
    IF s # <<>> /\ s[Len(s)] = "\n" THEN StripNewlines(SubSeq(s, 1, Len(s) - 1))
    ELSE s

\* line 29: the locations matched anywhere in the path of dockmate
ScriptBrewLocations ==
    {<<"/", "C", "e", "l", "l", "a", "r", "/", "d", "o", "c", "k", "m", "a", "t", "e">>,
     <<"/", "o", "p", "t", "/", "h", "o", "m", "e", "b", "r", "e", "w">>,
     <<"/", "u", "s", "r", "/", "l", "o", "c", "a", "l", "/", "C", "e", "l", "l", "a", "r">>,
     <<".", "l", "i", "n", "u", "x", "b", "r", "e", "w">>}

\* uname -m
Archs ==
    {"x86_64", "aarch64", "arm64", "riscv64"}

\* what the script reads before it downloads: brew and dockmate on PATH, the
\* brew list runs, which dockmate, brew --prefix (empty when it fails), the
\* architecture, and whether id -u is 0
InstallEnvs ==
    {e \in [brewOnPath : BOOLEAN, listed : BOOLEAN, dockmateOnPath : BOOLEAN,
            dockmatePath : ExePaths \cup {<<>>}, brewPrefix : BrewPrefixes \cup {<<>>},
            arch : Archs, root : BOOLEAN] :
        /\ ~e.brewOnPath => (~e.listed /\ e.brewPrefix = <<>>)
        /\ e.dockmateOnPath <=> e.dockmatePath # <<>>
        /\ e.listed => e.brewPrefix # <<>>}

\* lines 10-43
homebrewOwned(e) ==
    /\ e.brewOnPath
    /\ \/ e.listed
       \/ /\ e.dockmateOnPath
          /\ LET DOCKMATE_PATH == StripNewlines(e.dockmatePath)
                 BREW_PREFIX == StripNewlines(e.brewPrefix)
             IN  /\ BREW_PREFIX # <<>>
                 /\ \/ HasPrefix(DOCKMATE_PATH, BREW_PREFIX)
                    \/ \E l \in ScriptBrewLocations : Contains(DOCKMATE_PATH, l)

StartInstall(e) ==
    [pc |-> "homebrew", env |-> e, homebrew |-> "unknown", RELEASE_ARCH |-> "",
     api |-> "none", mktemp |-> "none", download |-> "none", checksum |-> "none",
     mkdir |-> "none", mv |-> "none", executable |-> FALSE, installed |-> FALSE,
     out |-> <<>>, exit |-> -1]

\* lines 8-43: Homebrew ownership ends the run with status 0
install_homebrew ==
    /\ inst.pc = "homebrew"
    /\ IF homebrewOwned(inst.env)
         THEN inst' = [inst EXCEPT !.pc = "done", !.homebrew = "yes", !.exit = 0,
                             !.out = <<"brew upgrade shubh-io/tap/dockmate">>]
       ELSE inst' = [inst EXCEPT !.pc = "arch", !.homebrew = "no"]
    /\ UNCHANGED <<host, daemonOk, pc, stderrOutput, primary, recheck, trace,
                   result, quiet, app, marker, upd, job>>

\* lines 44-50
install_arch ==
    /\ inst.pc = "arch"
    /\ IF inst.env.arch = "x86_64"
         THEN inst' = [inst EXCEPT !.pc = "tag", !.RELEASE_ARCH = "amd64"]
       ELSE IF inst.env.arch \in {"aarch64", "arm64"}
         THEN inst' = [inst EXCEPT !.pc = "tag", !.RELEASE_ARCH = "arm64"]
       ELSE inst' = [inst EXCEPT !.pc = "done", !.exit = 1,
                           !.out = @ \o <<"Unsupported architecture">>]
    /\ UNCHANGED <<host, daemonOk, pc, stderrOutput, primary, recheck, trace,
                   result, quiet, app, marker, upd, job>>

\* lines 52-74: the request fails; the response has no tag_name, so grep
\* fails and pipefail with set -e ends the run at line 66; the tag is empty;
\* or a tag is found
install_tag ==
    /\ inst.pc = "tag"
    /\ \E api \in {"fail", "noTag", "emptyTag", "tag"} :
          IF api = "fail"
            THEN inst' = [inst EXCEPT !.pc = "done", !.api = api, !.exit = 1,
                                !.out = @ \o <<"Error: Failed to fetch release info from GitHub">>]
          ELSE IF api = "noTag"
            THEN inst' = [inst EXCEPT !.pc = "done", !.api = api, !.exit = 1]
          ELSE IF api = "emptyTag"
            THEN inst' = [inst EXCEPT !.pc = "done", !.api = api, !.exit = 1,
                                !.out = @ \o <<"Error: Could not determine latest release version">>]
          ELSE inst' = [inst EXCEPT !.pc = "download", !.api = api,
                              !.out = @ \o <<"Latest version found">>]
    /\ UNCHANGED <<host, daemonOk, pc, stderrOutput, primary, recheck, trace,
                   result, quiet, app, marker, upd, job>>

\* lines 76-89: mktemp, then the download of the binary
install_download ==
    /\ inst.pc = "download"
    /\ \E tmp \in BOOLEAN, got \in BOOLEAN :
          IF ~tmp
            THEN inst' = [inst EXCEPT !.pc = "done", !.mktemp = "fail", !.exit = 1]
          ELSE IF ~got
            THEN inst' = [inst EXCEPT !.pc = "done", !.mktemp = "ok", !.download = "fail",
                                !.exit = 1,
                                !.out = @ \o <<"Error: Failed to download binary">>]
          ELSE inst' = [inst EXCEPT !.pc = "checksum", !.mktemp = "ok", !.download = "ok"]
    /\ UNCHANGED <<host, daemonOk, pc, stderrOutput, primary, recheck, trace,
                   result, quiet, app, marker, upd, job>>

\* a failed verification ends the run
install_checksum_gating ==
    /\ inst.pc = "checksum"
    /\ \E sum \in {"missing", "match", "mismatch"} :
          IF sum = "mismatch"
            THEN inst' = [inst EXCEPT !.pc = "done", !.checksum = sum, !.exit = 1,
                                !.out = @ \o <<"Warning: Checksum verification failed">>]
          ELSE inst' = [inst EXCEPT !.pc = "install", !.checksum = sum]
    /\ UNCHANGED <<host, daemonOk, pc, stderrOutput, primary, recheck, trace,
                   result, quiet, app, marker, upd, job>>

\* lines 91-103: no checksum file; sha256sum -c says OK; or it does not
install_checksum ==
    /\ inst.pc = "checksum"
    /\ \E sum \in {"missing", "match", "mismatch"} :
          inst' = [inst EXCEPT !.pc = "install", !.checksum = sum,
                         !.out = @ \o <<IF sum = "missing" THEN "No checksum file found"
                                        ELSE IF sum = "match" THEN "Checksum verified"
                                        ELSE "Warning: Checksum verification failed">>]
    /\ UNCHANGED <<host, daemonOk, pc, stderrOutput, primary, recheck, trace,
                   result, quiet, app, marker, upd, job>>

\* lines 105-132: chmod +x, then mkdir -p and mv, through sudo unless root;
\* a failing mkdir or mv ends the run (set -e)
install_move ==
    /\ inst.pc = "install"
    /\ \E made \in BOOLEAN, moved \in BOOLEAN :
          IF ~made
            THEN inst' = [inst EXCEPT !.pc = "done", !.executable = TRUE,
                                !.mkdir = "fail", !.exit = 1,
                                !.out = @ \o <<"Installing dockmate">>]
          ELSE IF ~moved
            THEN inst' = [inst EXCEPT !.pc = "done", !.executable = TRUE,
                                !.mkdir = "ok", !.mv = "fail", !.exit = 1,
                                !.out = @ \o <<"Installing dockmate">>]
          ELSE inst' = [inst EXCEPT !.pc = "done", !.executable = TRUE,
                              !.mkdir = "ok", !.mv = "ok", !.installed = TRUE,
                              !.exit = 0,
                              !.out = @ \o <<"Installing dockmate", "dockmate is installed">>]
    /\ UNCHANGED <<host, daemonOk, pc, stderrOutput, primary, recheck, trace,
                   result, quiet, app, marker, upd, job>>

InitInstall ==
    /\ inst \in {StartInstall(e) : e \in InstallEnvs}
    /\ host = InitHost("linux", {})
    /\ daemonOk = FALSE
    /\ pc = "idle"
    /\ stderrOutput = <<>>
    /\ primary = "none"
    /\ recheck = "none"
    /\ trace = <<>>
    /\ result = NoResult
    /\ quiet = 0
    /\ app = NoApp
    /\ marker = FALSE
    /\ upd = NoUpdate
    /\ job = NoJob

NextInstall ==
    \/ install_homebrew
    \/ install_arch
    \/ install_tag
    \/ install_download
    \/ install_checksum
    \/ install_move

SpecInstall ==
    InitInstall /\ [][NextInstall]_vars

(***************************************************************************)
(* What the claims speak about: the host's facts, stated on the host and   *)
(* not through the functions that read them, and the calls of one run.     *)
(***************************************************************************)

\* RunPreChecks has returned `result`; trace, primary and recheck are those
\* of that call
Returned ==
    pc = "idle" /\ result # NoResult

\* one of the events E is in the trace of the current call
Ran(E) ==
    \E i \in 1..Len(trace) : trace[i] \in E

SubCheckCalls ==
    {<<"call", f>> : f \in {"isUserInDockerGroup", "isDockerInActiveGroups",
                            "checkDockerSocketPermissions", "doesDockerGroupExist"}}

SubCheckOsCalls ==
    {LookPath("grep"), LookPath("id"), <<"exec", "grep">>, <<"exec", "id">>,
     <<"ReadFile", "/etc/group">>, <<"syscall", "user.Current">>,
     <<"Stat", SocketPath>>, <<"OpenFile", SocketPath>>, <<"Close", SocketPath>>}

InitProbeCalls ==
    {LookPath(InitProbes[i]) : i \in 1..Len(InitProbes)}

\* the entries of the group database whose name is exactly docker
DockerEntries(h) ==
    IF ~h.group.readable THEN {}
    ELSE LET lines == FileLines(h.group.text) IN
         {Split(lines[i], ":") : i \in {j \in 1..Len(lines) :
                                         Head(Split(lines[j], ":")) = <<"d", "o", "c", "k", "e", "r">>}}

GroupExists(h) ==
    DockerEntries(h) # {}

\* the user has a name and a docker entry lists it
UserListed(h) ==
    /\ h.user.found
    /\ \E e \in DockerEntries(h) :
          /\ Len(e) >= 4
          /\ LET members == Split(e[4], ",") IN
             \E i \in 1..Len(members) : TrimSpace(members[i]) = h.user.name

\* docker is among the groups `id -nG` reports
ActiveDocker(h) ==
    /\ "id" \in h.path
    /\ h.id.ok
    /\ LET groups == Fields(h.id.out) IN
       \E i \in 1..Len(groups) : groups[i] = <<"d", "o", "c", "k", "e", "r">>

SocketOpenable(h) ==
    h.socket = "openable"

\* the start command of the first init system found, in the documented order
FirstInitStart(h) ==
    IF "systemctl" \in h.path THEN <<"sudo", "systemctl", "start", "docker">>
    ELSE IF "rc-service" \in h.path THEN <<"sudo", "rc-service", "docker", "start">>
    ELSE IF "sv" \in h.path THEN <<"sudo", "sv", "up", "docker">>
    ELSE <<"sudo", "service", "docker", "start">>

\* the remedies, recognised by their wording
SocketRemedy(r) ==
    Contains(r.SuggestedAction, <<"sudo", "chown", "root:docker", "/var/run/docker.sock">>)

AddUserRemedy(r) ==
    /\ r.ErrorType = "DockerPermissionDenied"
    /\ Contains(r.SuggestedAction, <<"Add", "your", "user", "to", "the", "'docker'", "group:">>)

CreateGroupRemedy(r) ==
    /\ Contains(r.SuggestedAction, <<"sudo", "groupadd", "docker">>)
    /\ Contains(r.SuggestedAction, <<"sudo", "usermod", "-aG", "docker", "$USER">>)

ReloginRemedy(r) ==
    Contains(r.SuggestedAction, <<"Log", "out", "and", "log", "back", "in">>)

\* the call reached the permission branch: the first docker info failed, no
\* daemon phrase was found, the second docker info succeeded, and the stderr
\* has a permission phrase
InPermissionBranch ==
    /\ primary = "fail"
    /\ recheck = "ok"
    /\ \/ Contains(stderrOutput, <<"permission", "denied">>)
       \/ Contains(stderrOutput, <<"dial", "unix">>)

(***************************************************************************)
(* The claims.                                                             *)
(***************************************************************************)

\* C1: when docker is not on PATH, the call makes no OS call other than the
\* PATH lookup of docker (no docker info, no isDaemonRunning, no group or
\* socket sub-check), and it returns Passed=false with DockerNotInstalled.
C1_NotInstalledShortCircuit ==
    "docker" \notin host.path =>
        /\ \A i \in 1..Len(trace) : trace[i] = LookPath("docker")
        /\ pc \in {"idle", "checkInstalled"}
        /\ Returned => /\ ~result.Passed
                       /\ result.ErrorType = "DockerNotInstalled"
                       /\ trace = <<LookPath("docker")>>

C1_Witness ==
    /\ Returned
    /\ "docker" \notin host.path
    /\ {"grep", "id", "systemctl"} \subseteq host.path
    /\ result.ErrorType = "DockerNotInstalled"

\* C2: when the first docker info of a call exits zero, the call returns
\* Passed=true and has run nothing but the PATH lookup and that docker info,
\* whatever the host's OS, stderr text, groups, socket and init systems are.
C2_InfoOkShortCircuit ==
    (Returned /\ primary = "ok") =>
        /\ result.Passed
        /\ trace = <<LookPath("docker"), DockerInfo>>
        /\ recheck = "none"

C2_Witness ==
    /\ Returned
    /\ primary = "ok"
    /\ result.Passed
    /\ host.goos = "linux"
    /\ ~UserListed(host)
    /\ ~SocketOpenable(host)
    /\ Contains(host.stderr, <<"permission", "denied">>)

\* C3: every returned PreCheckResult is either Passed with NoError and empty
\* texts, or not Passed with one of the four error types and non-empty
\* ErrorMessage and SuggestedAction.
C3_ResultWellFormed ==
    Returned =>
        IF result.Passed
          THEN /\ result.ErrorType = "NoError"
               /\ result.ErrorMessage = <<>>
               /\ result.SuggestedAction = <<>>
        ELSE /\ result.ErrorType \in {"DockerNotInstalled", "DockerDaemonNotRunning",
                                      "DockerPermissionDenied", "DockerGroupNotRefreshed"}
             /\ result.ErrorMessage # <<>>
             /\ result.SuggestedAction # <<>>

\* a failing result of the fallback branch with an empty captured stderr
C3_Witness ==
    /\ Returned
    /\ ~result.Passed
    /\ primary = "fail"
    /\ recheck = "ok"
    /\ stderrOutput = <<>>
    /\ result.ErrorType = "DockerDaemonNotRunning"

\* C4 (as claimed): on a non-macOS host, when the first docker info fails with
\* a stderr that contains "Cannot connect to the Docker daemon", the result is
\* DockerDaemonNotRunning and suggests the start command of the first init
\* system found, whatever else the stderr holds and whatever the second docker
\* info returns.
C4_CannotConnectIsDaemonNotRunning ==
    (/\ Returned
     /\ host.goos # "darwin"
     /\ primary = "fail"
     /\ Contains(stderrOutput, <<"Cannot", "connect", "to", "the", "Docker", "daemon">>))
    => /\ result.ErrorType = "DockerDaemonNotRunning"
       /\ Contains(result.SuggestedAction, FirstInitStart(host))

\* C5 (as claimed): on Linux, when the first docker info fails with a stderr
\* that contains "permission denied", the user is listed in the docker group
\* and docker is not an active group, the result is DockerGroupNotRefreshed
\* with the log-out-and-in remedy.  The claim is taken here on the stderr texts
\* that hold no daemon-down phrase, where no documented priority applies.
C5_ListedNotActiveIsNotRefreshed ==
    (/\ Returned
     /\ host.goos = "linux"
     /\ primary = "fail"
     /\ Contains(stderrOutput, <<"permission", "denied">>)
     /\ ~Contains(stderrOutput, <<"Is", "the", "docker", "daemon", "running">>)
     /\ ~Contains(stderrOutput, <<"connect", "to", "the", "Docker", "daemon">>)
     /\ UserListed(host)
     /\ ~ActiveDocker(host))
    => /\ result.ErrorType = "DockerGroupNotRefreshed"
       /\ ReloginRemedy(result)

\* C6 (as claimed): on Linux, when the first docker info fails with a stderr
\* that contains "permission denied" and the group database has no docker
\* group, the result is DockerPermissionDenied with the create-group remedy,
\* whose text is not the add-user remedy.  The claim is taken here on the
\* stderr texts that hold no daemon-down phrase.
C6_NoGroupIsCreateGroup ==
    (/\ Returned
     /\ host.goos = "linux"
     /\ primary = "fail"
     /\ Contains(stderrOutput, <<"permission", "denied">>)
     /\ ~Contains(stderrOutput, <<"Is", "the", "docker", "daemon", "running">>)
     /\ ~Contains(stderrOutput, <<"connect", "to", "the", "Docker", "daemon">>)
     /\ ~GroupExists(host))
    => /\ result.ErrorType = "DockerPermissionDenied"
       /\ CreateGroupRemedy(result)
       /\ ~AddUserRemedy(result)

\* C7: on darwin no call runs a group, active-group, socket or group-existence
\* sub-check or probes an init-system command, and every result of a failed
\* first docker info names Docker Desktop in its SuggestedAction.
C7_DarwinBypassesGroupLogic ==
    host.goos = "darwin" =>
        /\ ~Ran(SubCheckCalls \cup SubCheckOsCalls \cup InitProbeCalls)
        /\ (Returned /\ primary = "fail") =>
              Contains(result.SuggestedAction, <<"Docker", "Desktop">>)

\* darwin with init systems on PATH: one witness per branch is reachable; this
\* is the permission branch
C7_Witness ==
    /\ Returned
    /\ host.goos = "darwin"
    /\ InPermissionBranch
    /\ {"systemctl", "sv"} \subseteq host.path
    /\ result.ErrorType = "DockerPermissionDenied"

\* C8: when a call returns and neither the host nor the daemon's answer has
\* changed since the call before it began, its result equals the result of
\* the call before it.
C8_SuccessiveCallsAgree ==
    [][(pc # "idle" /\ pc' = "idle" /\ quiet = 2) => result' = result]_vars

\* two calls have returned a failure with a non-empty stderr in a quiet period
C8_Witness ==
    /\ Returned
    /\ quiet = 2
    /\ primary = "fail"
    /\ stderrOutput # <<>>

C10_AddUserOnlyForNonMembers ==
    (Returned /\ AddUserRemedy(result)) =>
        /\ GroupExists(host)
        /\ ~UserListed(host)
(***************************************************************************)
(* Claims about the functions applied on their own (SpecPure).             *)
(***************************************************************************)

\* the init system a command line refers to: the word after sudo
InitSystemOf(cmdline) ==
    cmdline[2]

\* the first of systemctl, rc-service, sv that is on PATH, else service
FirstPresent(path) ==
    IF \E i \in 1..Len(InitProbes) : InitProbes[i] \in path
      THEN InitProbes[CHOOSE i \in 1..Len(InitProbes) :
                        /\ InitProbes[i] \in path
                        /\ \A j \in 1..(i - 1) : InitProbes[j] \notin path]
    ELSE "service"

\* C14 (as claimed): for every group database and user, isUserInDockerGroup
\* returns the same boolean with grep on PATH and without it, and so does
\* doesDockerGroupExist.
C14_GrepAndFallbackAgree ==
    (job.fn = "groupChecks" /\ job.out.done)
    => /\ job.out.member[TRUE] = job.out.member[FALSE]
       /\ job.out.exists[TRUE] = job.out.exists[FALSE]

\* C16: on a non-macOS host, for every subset of systemctl, rc-service, sv on
\* PATH, the start and the restart command both belong to the first of the
\* three that is present, or to service when none is, and so to the same
\* init system.
C16_FirstMatchPriority ==
    (job.fn = "initCommands" /\ job.out.done /\ job.in.goos # "darwin")
    => /\ InitSystemOf(job.out.start) = FirstPresent(job.in.path)
       /\ InitSystemOf(job.out.restart) = FirstPresent(job.in.path)
       /\ InitSystemOf(job.out.start) = InitSystemOf(job.out.restart)
       /\ \E i \in 1..Len(job.out.start) : job.out.start[i] \in {"start", "up"}
       /\ \E i \in 1..Len(job.out.restart) : job.out.restart[i] = "restart"

C16_Witness ==
    /\ job.fn = "initCommands"
    /\ job.out.done
    /\ job.in.goos = "linux"
    /\ job.in.path = {"rc-service", "sv"}
    /\ job.out.start = <<"sudo", "rc-service", "docker", "start">>
    /\ job.out.restart = <<"sudo", "rc-service", "docker", "restart">>

\* C17 (as claimed): on a non-macOS host isUserInDockerGroup returns true
\* exactly when the group database has a line whose first field is docker and
\* whose fourth field lists the user's name among its comma-separated,
\* trimmed entries, with grep on PATH or without.
C17_MemberIffListed ==
    (job.fn = "groupChecks" /\ job.out.done)
    => \A grep \in BOOLEAN :
          job.out.member[grep] = UserListed(GroupHost(job.in.text, job.in.name, grep))

\* C20 (as claimed): compareSemver is a consistent ordering: compareSemver(a,b)
\* is the negation of compareSemver(b,a), and a below b with b below c puts a
\* below c.
C20_ConsistentOrdering ==
    (job.fn = "compareSemver" /\ job.out.done)
    => /\ job.out.ab = 0 - job.out.ba
       /\ (job.out.ab < 0 /\ job.out.bc < 0) => job.out.ac < 0

(***************************************************************************)
(* Further claims about RunPreChecks (Spec).                               *)
(***************************************************************************)

\* the calls that only read: PATH lookups, the three subprocesses, reading the
\* group database, looking up the user, and stat, open and close of the socket
ReadOnlyCalls ==
    {LookPath(c) : c \in Commands}
    \cup {DockerInfo, <<"exec", "grep">>, <<"exec", "id">>,
          <<"ReadFile", "/etc/group">>, <<"syscall", "user.Current">>,
          <<"Stat", SocketPath>>, <<"OpenFile", SocketPath>>, <<"Close", SocketPath>>}

\* the current user's membership cannot be determined: the user lookup fails,
\* the group database cannot be read, or grep exits with an error
MembershipUndetermined(h) ==
    \/ ~h.user.found
    \/ ~h.group.readable
    \/ ("grep" \in h.path /\ ~GroupExists(h))

\* the active groups cannot be determined: id is missing or fails
ActiveUndetermined(h) ==
    \/ "id" \notin h.path
    \/ ~h.id.ok

\* a phrase of docker that says the daemon is down
DaemonDownPhrase(s) ==
    \/ Contains(s, <<"Is", "the", "docker", "daemon", "running">>)
    \/ Contains(s, <<"Cannot", "connect", "to", "the", "Docker", "daemon">>)

\* C12: no step of RunPreChecks changes the host (PATH, group database, user,
\* id, socket) or the daemon's state, and every OS call of a call is a read, a
\* PATH lookup, a stat, open or close of the socket, or one of docker info,
\* grep and id.
C12_HostUnchanged ==
    [][/\ (pc' # pc \/ trace' # trace) => (host' = host /\ daemonOk' = daemonOk)
       /\ \A i \in 1..Len(trace') :
             trace'[i] \in ReadOnlyCalls \/ trace'[i][1] = "call"]_vars

C12_Witness ==
    /\ Returned
    /\ Ran({<<"exec", "grep">>})
    /\ Ran({<<"exec", "id">>})
    /\ Ran({<<"syscall", "user.Current">>})
    /\ Ran({<<"OpenFile", SocketPath>>})
    /\ Ran({<<"Close", SocketPath>>})

\* C13: on Linux, in the permission branch, when the membership or the active
\* groups cannot be determined, all three sub-checks still run and the call
\* returns a failing result of the permission branch that takes the
\* undetermined fact as false: no socket remedy; without a membership the
\* create-group or add-user remedy; without active groups the re-login remedy
\* for a listed user; the create-group remedy when the database is unreadable.
C13_UndeterminedIsFalse ==
    (/\ Returned
     /\ host.goos # "darwin"
     /\ InPermissionBranch
     /\ MembershipUndetermined(host) \/ ActiveUndetermined(host))
    => /\ ~result.Passed
       /\ result.ErrorType \in {"DockerPermissionDenied", "DockerGroupNotRefreshed"}
       /\ result.ErrorMessage # <<>>
       /\ result.SuggestedAction # <<>>
       /\ \A f \in {"isUserInDockerGroup", "isDockerInActiveGroups",
                    "checkDockerSocketPermissions"} : Ran({<<"call", f>>})
       /\ ~SocketRemedy(result)
       /\ MembershipUndetermined(host)
            => /\ result.ErrorType = "DockerPermissionDenied"
               /\ CreateGroupRemedy(result) \/ AddUserRemedy(result)
       /\ (ActiveUndetermined(host) /\ UserListed(host))
            => /\ result.ErrorType = "DockerGroupNotRefreshed"
               /\ ReloginRemedy(result)
       /\ ~host.group.readable => CreateGroupRemedy(result)

C13_Witness ==
    /\ Returned
    /\ host.goos = "linux"
    /\ InPermissionBranch
    /\ ~host.user.found
    /\ ~host.group.readable
    /\ "id" \notin host.path
    /\ CreateGroupRemedy(result)

\* C15 (as claimed): when the first docker info fails and the stderr holds a
\* daemon-down phrase of docker or the second docker info fails too, the
\* result is DockerDaemonNotRunning, whatever else the stderr holds; and
\* DockerPermissionDenied or DockerGroupNotRefreshed is returned only when the
\* second docker info succeeded after the first failed.
C15_DaemonDownFirst ==
    /\ (/\ Returned
        /\ primary = "fail"
        /\ DaemonDownPhrase(stderrOutput) \/ recheck = "fail")
       => result.ErrorType = "DockerDaemonNotRunning"
    /\ (/\ Returned
        /\ result.ErrorType \in {"DockerPermissionDenied", "DockerGroupNotRefreshed"})
       => (primary = "fail" /\ recheck = "ok")

(***************************************************************************)
(* Claims about main's loop (SpecMain).                                    *)
(***************************************************************************)

\* C11: in every iteration of main's loop the dashboard is started only after
\* RunPreChecks was called in that iteration and returned Passed; a failing
\* result is printed (message, then suggested action) to stderr and the
\* process exits with status 1 without the dashboard having started in that
\* iteration; and a call of RunPreChecks is active only between its call in
\* runApp and its return, so that no two calls overlap.
C11_TuiOnlyAfterPassedChecks ==
    /\ app.pc = "tui" => app.tui
    /\ app.tui => /\ app.checked
                  /\ app.result = result
                  /\ app.result.Passed
                  /\ pc = "idle"
    /\ (app.checked /\ app.result # NoResult /\ ~app.result.Passed)
         => /\ app.pc = "exited"
            /\ app.exit = 1
            /\ app.result = result
            /\ app.stderr = <<result.ErrorMessage, result.SuggestedAction>>
            /\ ~app.tui
    /\ pc # "idle" => app.pc = "prechecks"
    /\ app.pc = "runApp" => (pc = "idle" /\ ~app.checked)

C11_Witness ==
    /\ app.restarted
    /\ app.pc = "exited"
    /\ app.checked
    /\ ~app.result.Passed
    /\ app.exit = 1

InstallerCommands ==
    {"curl | bash", "curl -o install.sh", "bash install.sh"}

Printed(line) ==
    \E i \in 1..Len(upd.out) : upd.out[i] = line

\* C19: an installer command has run only if the Homebrew detection returned
\* false, the latest tag was fetched and is not blank, and
\* compareSemver(current, latest) is negative; and "Updated successfully!" is
\* printed only if the piped install succeeded or the download and the run of
\* the fallback both succeeded.
C19_InstallerOnlyWhenNewer ==
    /\ (\E i \in 1..Len(upd.ran) : upd.ran[i] \in InstallerCommands)
         => /\ upd.homebrew = "no"
            /\ ~isHomebrewInstall(upd.brew)
            /\ upd.fetch = "ok"
            /\ TrimSpace(upd.latestTag) # <<>>
            /\ compareSemver(upd.current, upd.latestTag) < 0
    /\ Printed("Updated successfully!")
         => \/ upd.piped = "ok"
            \/ (upd.piped = "fail" /\ upd.download = "ok" /\ upd.run = "ok")

C19_Witness ==
    /\ upd.pc = "done"
    /\ upd.ran = <<"curl | bash", "curl -o install.sh", "bash install.sh", "rm install.sh">>
    /\ upd.run = "ok"
    /\ Printed("Updated successfully!")

(***************************************************************************)
(* Claims about install.sh (SpecInstall).                                  *)
(***************************************************************************)

InstallPrinted(line) ==
    \E i \in 1..Len(inst.out) : inst.out[i] = line

\* C21 (as claimed): at the end of a run, when the download of the binary
\* succeeded the binary is executable and installed, whatever the checksum
\* step found; and the binary is not installed only when Homebrew ownership
\* was detected, the architecture is unsupported, the tag could not be
\* determined, or no binary was downloaded.
C21_ChecksumNeverGates ==
    inst.pc = "done"
    => /\ inst.download = "ok" => (inst.executable /\ inst.installed)
       /\ ~inst.installed
            => \/ inst.homebrew = "yes"
               \/ inst.env.arch \notin {"x86_64", "aarch64", "arm64"}
               \/ inst.api \in {"fail", "noTag", "emptyTag"}
               \/ inst.mktemp = "fail"
               \/ inst.download = "fail"

\* C21 (amended): at the end of a run the binary is installed exactly when
\* Homebrew ownership was not detected, the architecture is supported, a tag
\* was found, mktemp and the download succeeded, and mkdir and mv succeeded;
\* the outcome of the checksum step has no part in it, a failed verification
\* only prints a warning; an installed binary was made executable first and
\* the run then ends with status 0, every other run past the Homebrew check
\* with status 1.
C21_InstalledIffStepsSucceed ==
    inst.pc = "done"
    => /\ inst.installed
            <=> /\ ~homebrewOwned(inst.env)
                /\ inst.env.arch \in {"x86_64", "aarch64", "arm64"}
                /\ inst.api = "tag"
                /\ inst.mktemp = "ok"
                /\ inst.download = "ok"
                /\ inst.mkdir = "ok"
                /\ inst.mv = "ok"
       /\ inst.download = "ok"
            => /\ inst.checksum \in {"missing", "match", "mismatch"}
               /\ inst.executable
               /\ inst.checksum = "mismatch"
                    <=> InstallPrinted("Warning: Checksum verification failed")
       /\ inst.installed => (inst.executable /\ inst.exit = 0)
       /\ (~inst.installed /\ inst.homebrew = "no") => inst.exit = 1

C21_Witness ==
    /\ inst.pc = "done"
    /\ inst.checksum = "mismatch"
    /\ ~inst.env.root
    /\ inst.installed
    /\ InstallPrinted("Warning: Checksum verification failed")

=============================================================================
